---- MODULE Spec2Model ----
(***************************************************************************)
(* Video Tool for Editor.js (src/index.js): the block record, the upload   *)
(* callbacks, the tunes and the mirroring of the stretched tune to the     *)
(* host block.                                                             *)
(***************************************************************************)
EXTENDS Integers, Sequences, FiniteSets, TLC

\* ---------------------------------------------------------------- bounds
\* upload attempts (and blob fetches of onPaste) in flight at once
MaxInFlight == 2
\* propagation tasks waiting in the microtask queue at once
MaxMicrotasks == 2

\* ------------------------------------------------------------ JS values
JsUndefined == "undefined"
JsNull == "null"
JsTrue == "bool:true"
JsFalse == "bool:false"
\* values an input record can hold under a tune name
InputTuneVals ==
  {JsUndefined, JsNull, JsTrue, JsFalse, "str:true", "str:false", "num:1", "num:0", "str:yes"}
JsBool(b) == IF b THEN JsTrue ELSE JsFalse
Truthy(v) == v \notin {JsUndefined, JsNull, JsFalse, "num:0", ""}
\* the ! operator
Not(v) == JsBool(~Truthy(v))

\* a file payload: null/undefined, or an object with an optional url and
\* optional further fields
Absent == "<absent>"
Urls == {"u1", "u2"}
\* the url of a pasted tag or pattern
PastedUrls == {"p1"}
Null == [kind |-> "null", url |-> Absent, extra |-> FALSE]
Obj(url, extra) == [kind |-> "object", url |-> url, extra |-> extra]
EmptyFile == Obj(Absent, FALSE)
FileObjects == {EmptyFile, Obj(Absent, TRUE), Obj("", FALSE)} \cup {Obj(u, FALSE) : u \in Urls}
Payloads == {Null} \cup FileObjects
HasUrl(file) == file.kind = "object" /\ file.url \notin {Absent, ""}

Captions == {"", "c1"}
InputCaptions == {JsUndefined, JsNull} \cup Captions

\* UploadResponseFormat
Responses == [success : {0, 1}, file : Payloads]

\* ------------------------------------------------------- static registry
tunes == <<"withBorder", "stretched", "withBackground">>
\* config.actions: one descriptor with an action function, one without
actions == <<[name |-> "flip", action |-> TRUE], [name |-> "mirror", action |-> FALSE]>>
StaticNames == {tunes[i] : i \in 1..Len(tunes)}
ActionNames == {actions[i].name : i \in 1..Len(actions)}
TuneNames == StaticNames \cup ActionNames
\* VideoTool.tunes.concat(this.config.actions), as renderSettings lists them
Descriptors ==
  [i \in 1..(Len(tunes) + Len(actions)) |->
     IF i <= Len(tunes) THEN [name |-> tunes[i], action |-> FALSE]
     ELSE actions[i - Len(tunes)]]

VARIABLES
  input,       \* the constructor's argument data, in scope during construction
  data,        \* this._data
  ui,          \* the Presenter's nodes: preloader and live caption node
  block,       \* this.block.stretched, the host's property
  microtasks,  \* the scheduled propagations, oldest first
  uploads,     \* the attempts the Upload Gateway has not settled, oldest first
  fetching,    \* onPaste calls awaiting the fetch of a blob
  rendered,    \* isActive of the controls the host holds, by tune name
  last         \* the last handler that ran: its argument, the calls it made in
               \* order, its result, and the settled attempt if it settled one

vars == <<input, data, ui, block, microtasks, uploads, fetching, rendered, last>>

Hidden == "<hidden>"
Shown == "<shown>"
Call(fn, arg, val) == [fn |-> fn, arg |-> arg, val |-> val]

\* the part of the state the handlers write, with the calls made so far
Cur ==
  [data |-> data, ui |-> ui, block |-> block, microtasks |-> microtasks,
   uploads |-> uploads, fetching |-> fetching, rendered |-> rendered, calls |-> <<>>]

\* ------------------------------------------------------------ Presenter
fillCaption(s, text) ==
  [s EXCEPT !.ui.caption = text, !.calls = Append(@, Call("fillCaption", text, ""))]
fillVideo(s, url) ==
  [s EXCEPT !.calls = Append(@, Call("fillVideo", url, ""))]
applyTune(s, name, value) ==
  [s EXCEPT !.calls = Append(@, Call("applyTune", name, value))]
showPreloader(s, src) ==
  [s EXCEPT !.ui.preloader = Shown, !.calls = Append(@, Call("showPreloader", src, ""))]
hidePreloader(s) ==
  [s EXCEPT !.ui.preloader = Hidden, !.calls = Append(@, Call("hidePreloader", "", ""))]

\* ----------------------------------------------------------- Editor Host
notifierShow(s) ==
  [s EXCEPT !.calls = Append(@, Call("notifier.show", "error", ""))]

\* ------------------------------------------------------- private methods
\* (mutant) the video is filled only while the block has none
SetVideoFillOnce(s, file) ==
  LET s1 == [s EXCEPT !.data.file = IF file.kind = "object" THEN file ELSE EmptyFile]
  IN IF HasUrl(file) /\ ~HasUrl(s.data.file) THEN fillVideo(s1, file.url) ELSE s1

\* (mutant) a populated file is kept: the first upload wins
SetVideoFirstWins(s, file) ==
  IF HasUrl(s.data.file) THEN s
  ELSE LET s1 == [s EXCEPT !.data.file = IF file.kind = "object" THEN file ELSE EmptyFile]
       IN IF HasUrl(file) THEN fillVideo(s1, file.url) ELSE s1

\* set video(file)
SetVideo(s, file) ==
  LET s1 == [s EXCEPT !.data.file = IF file.kind = "object" THEN file ELSE EmptyFile]
  IN IF HasUrl(file) THEN fillVideo(s1, file.url) ELSE s1

\* (mutant) the host property is written at once, no task is scheduled
setTuneSync(s, tuneName, value) ==
  LET s1 == [s EXCEPT !.data.tunes[tuneName] = value]
      s2 == applyTune(s1, tuneName, value)
  IN IF tuneName = "stretched"
     THEN [s2 EXCEPT !.block = value,
                     !.calls = Append(@, Call("block.stretched=", value, ""))]
     ELSE s2

\* (mutant) the propagation scheduled last runs first
setTuneLifo(s, tuneName, value) ==
  LET s1 == [s EXCEPT !.data.tunes[tuneName] = value]
      s2 == applyTune(s1, tuneName, value)
  IN IF tuneName = "stretched"
     THEN [s2 EXCEPT !.microtasks = <<value>> \o @]
     ELSE s2

\* setTune(tuneName, value)
setTune(s, tuneName, value) ==
  LET s1 == [s EXCEPT !.data.tunes[tuneName] = value]
      s2 == applyTune(s1, tuneName, value)
  IN IF tuneName = "stretched"
     THEN [s2 EXCEPT !.microtasks = Append(@, value)]
     ELSE s2

\* (mutant) a defined value is stored as it is
CoerceRaw(v) == IF v # JsUndefined THEN v ELSE JsFalse

\* (mutant) any truthy value counts as true
CoerceTruthy(v) == IF v # JsUndefined THEN JsBool(Truthy(v)) ELSE JsFalse

\* the coercion of set data
Coerce(v) == IF v # JsUndefined THEN JsBool(v = JsTrue \/ v = "str:true") ELSE JsFalse

RECURSIVE SetTunes(_, _, _)
\* VideoTool.tunes.forEach of set data, from the i-th tune on
SetTunes(s, d, i) ==
  IF i > Len(tunes) THEN s
  ELSE SetTunes(setTune(s, tunes[i], Coerce(d.tunes[tunes[i]])), d, i + 1)

\* set data(data)
SetData(s, d) ==
  LET s1 == SetVideo(s, d.file)
      s2 == [s1 EXCEPT !.data.caption = IF Truthy(d.caption) THEN d.caption ELSE ""]
      s3 == fillCaption(s2, s2.data.caption)
  IN SetTunes(s3, d, 1)

\* (mutant) a failure takes the video off the block
uploadingFailedClears(s) ==
  hidePreloader(notifierShow([s EXCEPT !.data.file = EmptyFile]))

\* uploadingFailed(errorText)
uploadingFailed(s) == hidePreloader(notifierShow(s))

\* (mutant) the success flag is not looked at
onUploadAnyFile(s, response) ==
  IF response.file.kind = "object"
  THEN SetVideo(s, response.file)
  ELSE uploadingFailed(s)

\* onUpload(response)
onUpload(s, response) ==
  IF response.success = 1 /\ response.file.kind = "object"
  THEN SetVideo(s, response.file)
  ELSE uploadingFailed(s)

\* tuneToggled(tuneName)
tuneToggled(s, tuneName) == setTune(s, tuneName, Not(s.data.tunes[tuneName]))

\* validate(savedData): the value of savedData.file && savedData.file.url
validate(savedData) ==
  IF savedData.file.kind # "object" THEN JsUndefined
  ELSE IF savedData.file.url = Absent THEN JsUndefined
  ELSE savedData.file.url

\* ------------------------------------------------------- Upload Gateway
Names(calls) == [i \in 1..Len(calls) |-> calls[i].fn]
\* how many times fn was called
Count(calls, fn) == Cardinality({i \in DOMAIN calls : calls[i].fn = fn})

\* a call of uploader.uploadByFile / uploadByUrl / uploadSelectedFile: the
\* attempt is in flight from here on, and its log starts with the calls the
\* handler made before it
gatewayCall(s, kind, fn, arg) ==
  LET s1 == [s EXCEPT !.calls = Append(@, Call(fn, arg, ""))]
      older == [i \in 1..Len(s.uploads) |-> [s.uploads[i] EXCEPT !.raced = TRUE]]
      attempt == [kind |-> kind, log |-> Names(s1.calls),
                  raced |-> Len(s.uploads) > 0, overtaken |-> FALSE, stale |-> FALSE]
  IN [s1 EXCEPT !.uploads = Append(older, attempt)]

\* the Gateway previews a file it was handed, once, before it settles
gatewayMayPreview(attempt) ==
  attempt.kind \in {"file", "select"} /\ \A i \in 1..Len(attempt.log) : attempt.log[i] # "showPreloader"

\* the attempts left when the i-th settles: the older ones have been
\* overtaken, and all are stale if the response stored a video
Without(ups, i, stored) ==
  [j \in 1..(Len(ups) - 1) |->
     IF j < i
     THEN [ups[j] EXCEPT !.overtaken = TRUE, !.stale = @ \/ stored]
     ELSE [ups[j + 1] EXCEPT !.stale = @ \/ stored]]

\* the attempts left when the user cancels the i-th
Dropped(ups, i) == [j \in 1..(Len(ups) - 1) |-> IF j < i THEN ups[j] ELSE ups[j + 1]]

\* ----------------------------------------------------------- upload entry
\* uploadFile(file)
uploadFile(s) == gatewayCall(s, "file", "uploadByFile", "file")

\* (mutant) the preloader is shown after the Gateway is called
uploadUrlLate(s, url) == showPreloader(gatewayCall(s, "url", "uploadByUrl", url), url)

\* uploadUrl(url)
uploadUrl(s, url) == gatewayCall(showPreloader(s, url), "url", "uploadByUrl", url)

\* the onSelectFile callback given to Ui
onSelectFile(s) == gatewayCall(s, "select", "uploadSelectedFile", "")

\* the onPreview callbacks given to the Gateway
onPreview(s, src) == showPreloader(s, src)

PasteEvents ==
  {[type |-> "tag", src |-> "blob:1"], [type |-> "file", src |-> ""], [type |-> "other", src |-> ""]}
    \cup {[type |-> t, src |-> u] : t \in {"tag", "pattern"}, u \in PastedUrls}
IsBlob(src) == src = "blob:1"

\* (mutant) the source of a tag is not tested for a blob reference
onPasteNoBlob(s, event) ==
  CASE event.type \in {"tag", "pattern"} -> uploadUrl(s, event.src)
    [] event.type = "file" -> uploadFile(s)
    [] OTHER -> s

\* onPaste(event), up to its first await
onPaste(s, event) ==
  CASE event.type = "tag" ->
         IF IsBlob(event.src)
         THEN [s EXCEPT !.fetching = @ + 1, !.calls = Append(@, Call("fetch", event.src, ""))]
         ELSE uploadUrl(s, event.src)
    [] event.type = "pattern" -> uploadUrl(s, event.src)
    [] event.type = "file" -> uploadFile(s)
    [] OTHER -> s

\* onPaste after the blob is fetched
onPasteFetched(s) == uploadFile([s EXCEPT !.fetching = @ - 1])

\* (mutant) save returns the record without reading the caption node
saveStored(s) == s

\* save(): const caption = this.ui.nodes.caption; this._data.caption = caption.innerHTML
save(s) ==
  [s EXCEPT !.data.caption = s.ui.caption,
            !.calls = Append(@, Call("caption.innerHTML", "", s.ui.caption))]

\* render(): this.ui.render(this.data)
render(s) == [s EXCEPT !.calls = Append(@, Call("ui.render", "", ""))]

\* renderSettings(): isActive of the returned controls, this.data[tune.name]
renderSettings(s) == [n \in TuneNames |-> s.data.tunes[n]]

\* (mutant) the toggle inverts the isActive the control was rendered with
onActivateCaptured(s, i) ==
  LET tune == Descriptors[i]
  IN IF tune.action
     THEN [s EXCEPT !.calls = Append(@, Call("action", tune.name, ""))]
     ELSE setTune(s, tune.name, Not(s.rendered[tune.name]))

\* (mutant) the custom action does not end the handler
onActivateFallThrough(s, i) ==
  LET tune == Descriptors[i]
      s1 == IF tune.action
            THEN [s EXCEPT !.calls = Append(@, Call("action", tune.name, ""))]
            ELSE s
  IN tuneToggled(s1, tune.name)

\* onActivate of the i-th control of renderSettings
onActivate(s, i) ==
  LET tune == Descriptors[i]
  IN IF tune.action
     THEN [s EXCEPT !.calls = Append(@, Call("action", tune.name, ""))]
     ELSE tuneToggled(s, tune.name)

\* (mutant) a rejected write takes the local tune back
propagateRollback(s, accepted) ==
  LET value == Head(s.microtasks)
      s1 == [s EXCEPT !.microtasks = Tail(@),
                      !.calls = Append(@, Call("block.stretched=", value, ""))]
  IN IF accepted
     THEN [s1 EXCEPT !.block = value]
     ELSE [s1 EXCEPT !.calls = Append(@, Call("console.error", "", "")),
                     !.data.tunes["stretched"] = Not(value)]

\* the task setTune schedules: this.block.stretched = value, and the catch
propagate(s, accepted) ==
  LET value == Head(s.microtasks)
      s1 == [s EXCEPT !.microtasks = Tail(@),
                      !.calls = Append(@, Call("block.stretched=", value, ""))]
  IN IF accepted
     THEN [s1 EXCEPT !.block = value]
     ELSE [s1 EXCEPT !.calls = Append(@, Call("console.error", "", ""))]

\* ----------------------------------------------------------- construction
New ==
  [data |-> [file |-> Null, caption |-> JsUndefined, tunes |-> [n \in TuneNames |-> JsUndefined]],
   ui |-> [preloader |-> Hidden, caption |-> ""],
   block |-> JsUndefined,
   microtasks |-> <<>>,
   uploads |-> <<>>,
   fetching |-> 0,
   rendered |-> [n \in TuneNames |-> JsUndefined],
   calls |-> <<>>]

\* the constructor: this._data = {}, this.data = data
constructor(d) == SetData(New, d)

NoResponse == [success |-> 0, file |-> Null]
NoAttempt == [kind |-> "", log |-> <<>>, raced |-> FALSE, overtaken |-> FALSE, stale |-> FALSE]
NoInput == [file |-> Null, caption |-> JsUndefined, tunes |-> [n \in StaticNames |-> JsUndefined]]

Ran(op, s) ==
  [op |-> op, name |-> "", src |-> "", response |-> NoResponse, calls |-> s.calls,
   result |-> JsUndefined, record |-> New.data, controls |-> New.rendered,
   attempt |-> NoAttempt]

Commit(s, ran) ==
  /\ data' = s.data
  /\ ui' = s.ui
  /\ block' = s.block
  /\ microtasks' = s.microtasks
  /\ uploads' = s.uploads
  /\ fetching' = s.fetching
  /\ rendered' = s.rendered
  /\ last' = ran
  /\ input' = NoInput

Inputs(files, captions, vals) ==
  [file : files, caption : captions, tunes : [StaticNames -> vals]]

InitFrom(d) ==
  LET s == constructor(d)
  IN /\ input = d
     /\ data = s.data
     /\ ui = s.ui
     /\ block = s.block
     /\ microtasks = s.microtasks
     /\ uploads = s.uploads
     /\ fetching = s.fetching
     /\ rendered = s.rendered
     /\ last = Ran("constructor", s)

\* a block constructed from any input record
Init == \E d \in Inputs(Payloads, InputCaptions, InputTuneVals) : InitFrom(d)

\* ---------------------------------------------------------------- actions
Room == Len(uploads) + fetching < MaxInFlight

UploadFile ==
  /\ Room
  /\ LET s == uploadFile(Cur) IN Commit(s, Ran("uploadFile", s))

UploadUrl ==
  /\ Room
  /\ \E url \in PastedUrls :
       LET s == uploadUrl(Cur, url) IN Commit(s, Ran("uploadUrl", s))

SelectFile ==
  /\ Room
  /\ LET s == onSelectFile(Cur) IN Commit(s, Ran("onSelectFile", s))

Paste ==
  \E event \in PasteEvents :
    /\ event.type \in {"tag", "pattern", "file"} => Room
    /\ LET s == onPaste(Cur, event)
       IN Commit(s, [Ran("onPaste", s) EXCEPT !.name = event.type, !.src = event.src])

PasteFetched ==
  /\ fetching > 0
  /\ LET s == onPasteFetched(Cur) IN Commit(s, [Ran("onPaste", s) EXCEPT !.name = "fetched"])

\* fetch rejects: onPaste ends without an upload
PasteFetchFailed ==
  /\ fetching > 0
  /\ LET s == [Cur EXCEPT !.fetching = @ - 1]
     IN Commit(s, [Ran("onPaste", s) EXCEPT !.name = "rejected"])

\* the Gateway calls onPreview of the i-th attempt
Preview ==
  \E i \in 1..Len(uploads) :
    /\ gatewayMayPreview(uploads[i])
    /\ LET s == onPreview(Cur, "preview")
           s1 == [s EXCEPT !.uploads[i].log = Append(@, "showPreloader")]
       IN Commit(s1, [Ran("onPreview", s1) EXCEPT !.attempt = s1.uploads[i]])

\* the user closes the file picker without a file
SelectCancelled ==
  \E i \in 1..Len(uploads) :
    /\ uploads[i].kind = "select"
    /\ gatewayMayPreview(uploads[i])
    /\ LET s == [Cur EXCEPT !.uploads = Dropped(uploads, i)]
       IN Commit(s, Ran("cancel", s))

Settle(i, op, response, s) ==
  LET s1 == [s EXCEPT !.uploads = Without(uploads, i, Count(s.calls, "fillVideo") > 0)]
  IN Commit(s1, [Ran(op, s1) EXCEPT !.response = response,
                                   !.attempt = [uploads[i] EXCEPT !.log = Append(@, op)]])

\* the Gateway resolves the i-th attempt: onUpload(response)
Uploaded ==
  \E i \in 1..Len(uploads), response \in Responses :
    Settle(i, "onUpload", response, onUpload(Cur, response))

\* the Gateway rejects the i-th attempt: onError(error)
UploadError ==
  \E i \in 1..Len(uploads) :
    Settle(i, "uploadingFailed", NoResponse, uploadingFailed(Cur))

\* a control of renderSettings is activated
Activate ==
  /\ Len(microtasks) < MaxMicrotasks
  /\ \E i \in DOMAIN Descriptors :
       LET s == onActivate(Cur, i)
       IN Commit(s, [Ran("onActivate", s) EXCEPT !.name = Descriptors[i].name])

\* the user types in the caption node
EditCaption ==
  \E text \in Captions :
    /\ text # ui.caption
    /\ LET s == [Cur EXCEPT !.ui.caption = text] IN Commit(s, Ran("edit", s))

Save ==
  LET s == save(Cur) IN Commit(s, [Ran("save", s) EXCEPT !.record = s.data])

Render ==
  LET s == render(Cur) IN Commit(s, Ran("render", s))

RenderSettings ==
  Commit(Cur, [Ran("renderSettings", Cur) EXCEPT !.controls = renderSettings(Cur)])

\* the host shows the controls renderSettings has just returned, in place of
\* the ones it held
Mount ==
  /\ last.op = "renderSettings"
  /\ LET s == [Cur EXCEPT !.rendered = last.controls] IN Commit(s, Ran("mount", s))

Validate ==
  \E file \in Payloads :
    Commit(Cur, [Ran("validate", Cur) EXCEPT !.response.file = file,
                                            !.result = validate([file |-> file])])

\* the oldest scheduled propagation runs; the host takes the value or throws
Propagate ==
  /\ microtasks # <<>>
  /\ \E accepted \in BOOLEAN :
       LET s == propagate(Cur, accepted) IN Commit(s, Ran("propagate", s))

\* every handler runs in a task of its own, with the microtask queue drained
\* before it, and the host starts an upload when none is in flight
Idle == uploads = <<>> /\ fetching = 0
Drained == microtasks = <<>>

Next ==
  \/ Drained /\ Idle /\ UploadFile
  \/ Drained /\ Idle /\ UploadUrl
  \/ Drained /\ Idle /\ SelectFile
  \/ Drained /\ Idle /\ Paste
  \/ Drained /\ PasteFetched
  \/ Drained /\ PasteFetchFailed
  \/ Drained /\ Preview
  \/ Drained /\ SelectCancelled
  \/ Drained /\ Uploaded
  \/ Drained /\ UploadError
  \/ Drained /\ Activate
  \/ Drained /\ EditCaption
  \/ Drained /\ Save
  \/ Drained /\ Render
  \/ Drained /\ RenderSettings
  \/ Propagate

Spec == Init /\ [][Next]_vars

\* uploads started while others are in flight; the tunes, the caption and the
\* propagation that construction scheduled rest.
\* The block is new, or restored from a record with a video
SavedFiles == {Null, EmptyFile} \cup {Obj(u, FALSE) : u \in Urls}
InitUploads == \E d \in Inputs(SavedFiles, {JsUndefined}, {JsUndefined}) : InitFrom(d)

NextUploads ==
  \/ UploadFile
  \/ UploadUrl
  \/ SelectFile
  \/ Paste
  \/ PasteFetched
  \/ PasteFetchFailed
  \/ Preview
  \/ SelectCancelled
  \/ Uploaded
  \/ UploadError

SpecUploads == InitUploads /\ [][NextUploads]_vars

\* tune controls activated within one task, before the scheduled propagations
\* run; no upload
NextTunes ==
  \/ Activate
  \/ Propagate
  \/ EditCaption
  \/ Save

SpecTunes == Init /\ [][NextTunes]_vars

\* the host validates saved records
NextSaved ==
  \/ Validate
  \/ EditCaption
  \/ Save

SpecSaved == Init /\ [][NextSaved]_vars

\* the host renders the settings menu and the user activates its controls,
\* also controls rendered before earlier activations
InitSettings ==
  \E d \in Inputs({Null}, {JsUndefined}, {JsUndefined, JsTrue}) : InitFrom(d)

NextSettings ==
  \/ RenderSettings
  \/ Mount
  \/ Activate
  \/ Propagate

SpecSettings == InitSettings /\ [][NextSettings]_vars

\* ----------------------------------------------------------------- claims
Index(log, fns) == CHOOSE i \in DOMAIN log : log[i] \in fns
Has(log, fns) == \E i \in DOMAIN log : log[i] \in fns
GatewayFns == {"uploadByFile", "uploadByUrl", "uploadSelectedFile"}
Handlers == {"onUpload", "uploadingFailed"}
Booleans == {JsTrue, JsFalse}

\* the last handler settled an attempt without storing a file
Failed ==
  \/ last.op = "uploadingFailed"
  \/ last.op = "onUpload" /\ (last.response.success = 0 \/ last.response.file.kind = "null")

\* the last handler settled an attempt with a response that carries file data
Stored ==
  last.op = "onUpload" /\ last.response.success = 1 /\ last.response.file.kind = "object"

C2_SuccessPopulates ==
  (last.op = "onUpload" /\ last.response.success = 1 /\ HasUrl(last.response.file)) =>
    /\ HasUrl(data.file)
    /\ data.file.url = last.response.file.url
    /\ Count(last.calls, "fillVideo") = 1
    /\ \A i \in DOMAIN last.calls :
         last.calls[i].fn = "fillVideo" => last.calls[i].arg = last.response.file.url
    /\ Count(last.calls, "notifier.show") = 0

\* a block that another attempt had populated took a successful response
\* with u2
C2_Witness ==
  /\ last.op = "onUpload"
  /\ last.response = [success |-> 1, file |-> Obj("u2", FALSE)]
  /\ last.attempt.stale
  /\ data.file.url = "u2"
  /\ last.calls = <<Call("fillVideo", "u2", "")>>

\* C3: the file is an empty mapping or a mapping with a non-empty url, in
\* every reachable state.
C3_FileEmptyOrUrl == data.file = EmptyFile \/ HasUrl(data.file)

\* C4: a populated block never returns to a file without a url.
C4_NeverBackToEmpty == [][HasUrl(data.file) => HasUrl(data'.file)]_vars

\* C5 (as claimed): when attempts overlapped, the one that settles last
\* determines the final file: it overwrites the video a completion of the
\* other, come in while it was in flight, has stored.
C5_LastSettledDetermines ==
  (last.op \in Handlers /\ last.attempt.stale /\ uploads = <<>>) =>
    Stored /\ data.file = last.response.file

\* C5 (amended): starting an upload leaves the attempts in flight as they are;
\* an overlapped attempt that settles with a success carrying file data sets
\* the file to its payload, whichever attempt was started first, and one that
\* settles otherwise leaves the file as the earlier completion left it.
C5_LastStoredWins ==
  [][/\ (last'.op \in Handlers /\ last'.attempt.raced) =>
          IF Stored' THEN data'.file = last'.response.file ELSE data'.file = data.file
     /\ last'.op \in {"uploadFile", "uploadUrl", "onSelectFile", "onPaste"} =>
          /\ Len(uploads') >= Len(uploads)
          /\ \A i \in 1..Len(uploads) :
               /\ uploads'[i].kind = uploads[i].kind
               /\ uploads'[i].log = uploads[i].log]_vars

\* the attempt started first settled last, after the second, and its file won
C5_Witness ==
  /\ Stored
  /\ last.attempt.overtaken
  /\ uploads = <<>>
  /\ HasUrl(data.file)
  /\ data.file = last.response.file

\* C6 (as claimed): every tune of the registry and of the configured actions
\* has a boolean value.
C6_AllTunesBoolean == \A n \in TuneNames : data.tunes[n] \in Booleans

\* C6 (amended): every tune of the static registry has a boolean value, after
\* construction and ever after; the names of the configured actions have no
\* value after construction.
C6_RegistryTunesBoolean ==
  /\ \A n \in StaticNames : data.tunes[n] \in Booleans
  /\ last.op = "constructor" => \A n \in ActionNames : data.tunes[n] = JsUndefined

\* a block constructed from the empty record
C6_Witness ==
  /\ last.op = "constructor"
  /\ input = NoInput
  /\ \A n \in StaticNames : data.tunes[n] = JsFalse
  /\ \A n \in ActionNames : data.tunes[n] = JsUndefined

\* the logs of the attempts in flight and of the attempt just settled
Logs ==
  {uploads[i] : i \in 1..Len(uploads)}
    \cup (IF last.op \in Handlers \cup {"onPreview"} THEN {last.attempt} ELSE {})

SetStretched ==
  \/ last.op = "constructor"
  \/ last.op = "onActivate" /\ last.name = "stretched"

\* C8: every setTune('stretched', v) schedules exactly one propagation of v,
\* after the local value and the Presenter are updated and without writing the
\* host property itself; every scheduled propagation makes one write attempt
\* of its value, accepted or not; nothing else schedules or writes.
C8_OnePropagationPerCall ==
  /\ last.op = "constructor" =>
       microtasks = <<data.tunes["stretched"]>> /\ block = JsUndefined
  /\ [][/\ (last'.op = "onActivate" /\ last'.name = "stretched") =>
             /\ microtasks' = Append(microtasks, data'.tunes["stretched"])
             /\ last'.calls = <<Call("applyTune", "stretched", data'.tunes["stretched"])>>
             /\ block' = block
        /\ last'.op = "propagate" =>
             /\ microtasks # <<>>
             /\ microtasks' = Tail(microtasks)
             /\ Count(last'.calls, "block.stretched=") = 1
             /\ last'.calls[1] = Call("block.stretched=", Head(microtasks), "")
             /\ block' \in {block, Head(microtasks)}
             /\ Count(last'.calls, "console.error") = 0 => block' = Head(microtasks)
        /\ ~(SetStretched' \/ last'.op = "propagate") =>
             microtasks' = microtasks /\ block' = block]_vars

\* a second toggle of stretched while the propagation of the first waits
C8_Witness ==
  /\ last.op = "onActivate"
  /\ last.name = "stretched"
  /\ Len(microtasks) = 2
  /\ microtasks[1] # microtasks[2]
  /\ microtasks[2] = data.tunes["stretched"]

\* the last task was a propagation the host rejected
Rejected == last.op = "propagate" /\ Count(last.calls, "console.error") = 1

\* C9: a rejected propagation is swallowed: the record (stretched included),
\* the Presenter, the host property and the uploads in flight are as before
\* and no notification is shown.
C9_RejectionSwallowed ==
  [][Rejected' =>
       /\ data' = data
       /\ ui' = ui
       /\ block' = block
       /\ uploads' = uploads
       /\ fetching' = fetching
       /\ Count(last'.calls, "notifier.show") = 0]_vars

\* stretched was set on a populated block and the host rejected the write
C9_Witness ==
  /\ Rejected
  /\ data.tunes["stretched"] = JsTrue
  /\ block # JsTrue
  /\ HasUrl(data.file)

\* C10: construction makes a registry tune true exactly when the input value
\* is the boolean true or the string "true", and false otherwise.
C10_CoercedTunes ==
  last.op = "constructor" =>
    \A n \in StaticNames :
      data.tunes[n] = (IF input.tunes[n] \in {JsTrue, "str:true"} THEN JsTrue ELSE JsFalse)

\* an input with "true", 1 and null
C10_Witness ==
  /\ last.op = "constructor"
  /\ input.tunes["withBorder"] = "str:true"
  /\ input.tunes["stretched"] = "num:1"
  /\ input.tunes["withBackground"] = JsNull
  /\ data.tunes["withBorder"] = JsTrue
  /\ data.tunes["stretched"] = JsFalse
  /\ data.tunes["withBackground"] = JsFalse

\* the calls of fn in calls were all made with arg
CalledWith(calls, fn, arg) ==
  \A i \in DOMAIN calls : calls[i].fn = fn => calls[i].arg = arg

\* C11: construction from an input record with a populated file.url yields a
\* record with that url and every registry tune boolean, and calls fillVideo
\* with that url; construction from a record without file, or with a file
\* that has no url, yields the EMPTY block (file is {}) and does not call
\* fillVideo.
C11_ConstructionRoundTrip ==
  last.op = "constructor" =>
    /\ HasUrl(input.file) =>
         /\ data.file.url = input.file.url
         /\ \A n \in StaticNames : data.tunes[n] \in Booleans
         /\ Count(last.calls, "fillVideo") = 1
         /\ CalledWith(last.calls, "fillVideo", input.file.url)
    /\ (input.file.kind = "null" \/ input.file.url = Absent) =>
         /\ data.file = EmptyFile
         /\ Count(last.calls, "fillVideo") = 0

\* what construction does keep of C11: the url round trip, and no fillVideo
\* without a url
C11_UrlRoundTrip ==
  last.op = "constructor" =>
    /\ HasUrl(input.file) =>
         /\ data.file.url = input.file.url
         /\ \A n \in StaticNames : data.tunes[n] \in Booleans
         /\ Count(last.calls, "fillVideo") = 1
         /\ CalledWith(last.calls, "fillVideo", input.file.url)
    /\ ~HasUrl(input.file) =>
         /\ ~HasUrl(data.file)
         /\ Count(last.calls, "fillVideo") = 0

\* the controls of the registry tunes
StaticControls == {i \in DOMAIN Descriptors : Descriptors[i].name \in StaticNames}

\* C12: for every registry tune n, setTune(n, true) then setTune(n, false)
\* leaves the tune false; every activation of a registry tune's control
\* inverts the value the tune has when the control is activated, whatever the
\* control showed when it was rendered, so two activations of one control
\* restore the value.
C12_ToggleRoundTrip ==
  /\ [](\A n \in StaticNames :
          setTune(setTune(Cur, n, JsTrue), n, JsFalse).data.tunes[n] = JsFalse)
  /\ [](\A i \in StaticControls :
          onActivate(onActivate(Cur, i), i).data.tunes[Descriptors[i].name]
            = data.tunes[Descriptors[i].name])
  /\ [][(last'.op = "onActivate" /\ last'.name \in StaticNames) =>
          data'.tunes[last'.name] = Not(data.tunes[last'.name])]_vars

\* a control of a registry tune, shown by the host before the tune was
\* toggled, has been activated again and the tune is back at the value the
\* control was rendered with
C12_Witness ==
  /\ last.op = "onActivate"
  /\ last.name \in StaticNames
  /\ rendered[last.name] \in Booleans
  /\ data.tunes[last.name] = rendered[last.name]

\* the descriptor renderSettings lists under name
Descriptor(name) == Descriptors[CHOOSE i \in DOMAIN Descriptors : Descriptors[i].name = name]

\* C13: activating the control of a descriptor with an action function calls
\* that function once, with the tune name, and nothing else: the record, the
\* Presenter and the host's stretched property stay as they were and no
\* propagation is scheduled; activating a control without an action function
\* inverts the tune through setTune.
C13_CustomActionBypasses ==
  [][last'.op = "onActivate" =>
       IF Descriptor(last'.name).action
       THEN /\ last'.calls = <<Call("action", last'.name, "")>>
            /\ data' = data
            /\ ui' = ui
            /\ block' = block
            /\ microtasks' = microtasks
       ELSE /\ data'.tunes[last'.name] = Not(data.tunes[last'.name])
            /\ last'.calls = <<Call("applyTune", last'.name, data'.tunes[last'.name])>>]_vars

\* the custom action was called while a propagation was waiting
C13_Witness ==
  /\ last.op = "onActivate"
  /\ last.name = "flip"
  /\ Count(last.calls, "action") = 1
  /\ microtasks # <<>>

\* C14: onPaste routes by the category of the event. A tag with a blob:
\* source is fetched and the fetched binary goes to uploadFile; a tag with
\* another source and a pattern go to uploadUrl with their url; a file goes
\* to uploadFile; any other category starts no upload, shows no preloader
\* and no notification and leaves the record as it was.
C14_PasteRouting ==
  [][last'.op = "onPaste" =>
       CASE last'.name = "tag" /\ IsBlob(last'.src) ->
              /\ last'.calls = <<Call("fetch", last'.src, "")>>
              /\ uploads' = uploads
              /\ fetching' = fetching + 1
         [] last'.name = "fetched" ->
              /\ Names(last'.calls) = <<"uploadByFile">>
              /\ Len(uploads') = Len(uploads) + 1
              /\ uploads'[Len(uploads')].kind = "file"
              /\ fetching' = fetching - 1
         [] last'.name \in {"tag", "pattern"} /\ ~IsBlob(last'.src) ->
              /\ Names(last'.calls) = <<"showPreloader", "uploadByUrl">>
              /\ CalledWith(last'.calls, "uploadByUrl", last'.src)
              /\ Len(uploads') = Len(uploads) + 1
              /\ uploads'[Len(uploads')].kind = "url"
         [] last'.name = "file" ->
              /\ Names(last'.calls) = <<"uploadByFile">>
              /\ Len(uploads') = Len(uploads) + 1
              /\ uploads'[Len(uploads')].kind = "file"
         [] last'.name = "other" ->
              /\ last'.calls = <<>>
              /\ data' = data
              /\ ui' = ui
              /\ uploads' = uploads
              /\ fetching' = fetching
         [] OTHER -> last'.name = "rejected"]_vars

\* the blob of a pasted tag was fetched and handed to uploadFile while
\* another attempt was in flight
C14_Witness ==
  /\ last.op = "onPaste"
  /\ last.name = "fetched"
  /\ Names(last.calls) = <<"uploadByFile">>
  /\ Len(uploads) = 2
  /\ uploads[2].kind = "file"

\* C15: validate(record) returns a boolean, true exactly when record.file.url
\* is a non-empty string: false for {file: {}} and for {}, true for
\* {file: {url: "http://x/v.mp4"}}.
C15_ValidateBoolean ==
  last.op = "validate" => last.result = JsBool(HasUrl(last.response.file))

\* C16: after construction the record's file changes only in the completion
\* handler of a successful upload (onUpload with success=1 and file data):
\* starting an upload, a paste, a preview, a failed or malformed completion,
\* a tune toggle, a custom action, render, renderSettings and save leave
\* file as it was.
C16_FileOnlyOnSuccess ==
  [][data'.file # data.file => Stored']_vars

\* the completion handler of a file selection stored the video it was given
C16_Witness ==
  /\ Stored
  /\ HasUrl(last.response.file)
  /\ data.file = last.response.file
  /\ Count(last.calls, "fillVideo") = 1
  /\ last.attempt.kind = "select"

\* C17: each save reads the live caption node once, stores its text as the
\* record's caption and returns the record; it leaves file, the tunes and
\* the host property as they were, schedules no propagation and shows no
\* notification. The caption is a string, never null or undefined, after
\* construction (an absent caption is "") and after every save.
C17_SaveReadsCaption ==
  /\ [](data.caption \in Captions)
  /\ [](last.op = "constructor" /\ ~Truthy(input.caption) => data.caption = "")
  /\ [](last.op = "save" =>
          /\ last.calls = <<Call("caption.innerHTML", "", ui.caption)>>
          /\ data.caption = ui.caption
          /\ last.record = data)
  /\ [][last'.op = "save" =>
          /\ data'.caption = ui.caption
          /\ data'.file = data.file
          /\ data'.tunes = data.tunes
          /\ ui' = ui
          /\ block' = block
          /\ microtasks' = microtasks]_vars

\* a save stored the text of the caption node and returned the record, while
\* a propagation was waiting
C17_Witness ==
  /\ last.op = "save"
  /\ data.caption = "c1"
  /\ last.record.caption = "c1"
  /\ microtasks # <<>>

\* C18: every onUpload(response) ends in exactly one of two ways: fillVideo
\* is called with the url of the response, or the failure path runs (one
\* error notification and hidePreloader). No response is taken with neither
\* effect.
C18_CompletionVisible ==
  last.op = "onUpload" =>
    \/ /\ Count(last.calls, "fillVideo") = 1
       /\ CalledWith(last.calls, "fillVideo", last.response.file.url)
       /\ Count(last.calls, "notifier.show") = 0
    \/ /\ Count(last.calls, "fillVideo") = 0
       /\ Count(last.calls, "notifier.show") = 1
       /\ Count(last.calls, "hidePreloader") = 1

\* the last handler was a propagation the host took
Accepted == last.op = "propagate" /\ Count(last.calls, "console.error") = 0

\* C19: the host's stretched property converges to the record's. The
\* propagation scheduled last always carries the record's current stretched
\* value and the propagations run oldest first, each writing the value of
\* its own call; so when the last one has run and the host took it, the
\* host's property equals the record's stretched value, and stays equal
\* until the next setTune of stretched.
C19_MirrorConverges ==
  /\ [](microtasks # <<>> => microtasks[Len(microtasks)] = data.tunes["stretched"])
  /\ [][last'.op = "propagate" =>
          /\ microtasks' = Tail(microtasks)
          /\ last'.calls[1] = Call("block.stretched=", Head(microtasks), "")]_vars
  /\ []((Accepted /\ microtasks = <<>>) => block = data.tunes["stretched"])
  /\ [][(microtasks = <<>> /\ microtasks' = <<>> /\ block = data.tunes["stretched"]) =>
          block' = data'.tunes["stretched"]]_vars

\* every propagation has run, the host took the last one and shows the block
\* stretched, as the record says
C19_Witness ==
  /\ Accepted
  /\ microtasks = <<>>
  /\ block = JsTrue
  /\ data.tunes["stretched"] = JsTrue
====
